---- MODULE Spec2Model ----
(*
  A model of mwlib/advtree.py: the AdvancedNode tree primitives
  (moveto, appendChild, removeChild, replaceChild, sibling navigation) and
  the tree-rebuilding passes run by buildAdvancedTree.

  A node is an object identity (a positive integer).  The heap is a record
  of per-node fields:
     klass      node.__class__            (a class name)
     caption    node.caption              (a sequence of one-character strings)
     children   node.children            (a sequence of node identities)
     parentref  node._parentref           (a node identity, or None)
     h_level    node.h_level              (class attribute of AdvancedSection)
     uh_level   node._h_level             (instance attribute set by fixTagNodes)
     log        the records sent to log.warn, in order
     exc        the exception that is propagating, or "none"
  Nodes compare by identity and are true in a boolean context.
*)
EXTENDS Integers, Sequences, FiniteSets, TLC

\* ------------------------------------------------------------------
\* Bounds of the model
\* ------------------------------------------------------------------

\* largest number of nodes of an input tree, the root included
MaxNodes == 5

\* largest number of nodes of a tree the primitives are applied to
MaxPrimNodes == 4

\* largest number of primitive operations applied in a row
MaxOps == 2

\* most nodes of an input tree of the specification with fairness
MaxFairNodes == 3

\* the value of a missing reference (Python's None); node identities are >= 1
None == 0

\* ------------------------------------------------------------------
\* Strings: a caption is a sequence of one-character strings
\* ------------------------------------------------------------------

\* characters that unicode.strip() removes
Whitespace == {" ", "\n", "\t"}

RECURSIVE lstrip(_)
lstrip(s) ==
    IF s = <<>> THEN s
    ELSE IF Head(s) \in Whitespace THEN lstrip(Tail(s)) ELSE s

RECURSIVE rstrip(_)
rstrip(s) ==
    IF s = <<>> THEN s
    ELSE IF s[Len(s)] \in Whitespace THEN rstrip(SubSeq(s, 1, Len(s) - 1)) ELSE s

\* caption.strip()
strip(s) == rstrip(lstrip(s))

\* caption.replace("\n", " ")
replaceNewline(s) == [i \in 1..Len(s) |-> IF s[i] = "\n" THEN " " ELSE s[i]]

\* caption.startswith(":")
startswithColon(s) == Len(s) >= 1 /\ s[1] = ":"

\* int(caption[1]) for the captions "h1" .. "h6"
DigitValue == [d \in {"1", "2", "3", "4", "5", "6"} |->
                 CASE d = "1" -> 1 [] d = "2" -> 2 [] d = "3" -> 3
                   [] d = "4" -> 4 [] d = "5" -> 5 [] d = "6" -> 6]

\* ------------------------------------------------------------------
\* Classification tables
\* ------------------------------------------------------------------

\* _styleNodeMap, with the entry "s" added after _tagNodeMap is built
styleNodeMap ==
    (<<"o","v","e","r","l","i","n","e">> :> "Overline") @@
    (<<"u">> :> "Underline") @@
    (<<"s","u","b">> :> "Sub") @@
    (<<"s","u","p">> :> "Sup") @@
    (<<"s","m","a","l","l">> :> "Small") @@
    (<<"b","i","g">> :> "Big") @@
    (<<"c","i","t","e">> :> "Cite") @@
    (<<"s">> :> "Strike")

\* _tagNodeMap
tagNodeMap ==
    (<<"c","o","d","e">> :> "Code") @@
    (<<"b","r">> :> "BreakingReturn") @@
    (<<"h","r">> :> "HorizontalRule") @@
    (<<"i","n","d","e","x">> :> "Index") @@
    (<<"t","t">> :> "Teletyped") @@
    (<<"r","e","f">> :> "Reference") @@
    (<<"r","e","f","e","r","e","n","c","e","s">> :> "ReferenceList") @@
    (<<"g","a","l","l","e","r","y">> :> "Gallery") @@
    (<<"c","e","n","t","e","r">> :> "Center") @@
    (<<"d","i","v">> :> "Div") @@
    (<<"s","p","a","n">> :> "Span") @@
    (<<"s","t","r","i","k","e">> :> "Strike") @@
    (<<"i","m","a","g","e","m","a","p">> :> "ImageMap")

\* the captions "h1" .. "h6" tested by fixTagNodes
headingTags == { <<"h", d>> : d \in {"1", "2", "3", "4", "5", "6"} }

\* _blockNodesMap: the classes whose isinlinenode is set to False
blockNodesMap ==
    {"Book", "Chapter", "Article", "Section", "Paragraph", "PreFormatted",
     "Cell", "Row", "Table", "Item", "ItemList", "Timeline", "Cite",
     "HorizontalRule", "Gallery", "Indented", "DefinitionList",
     "DefinitionTerm", "DefinitionDescription", "ReferenceList"}

\* _inlineNodesMap: the classes whose isinlinenode is set to True
inlineNodesMap ==
    {"URL", "NamedURL", "Link", "CategoryLink", "SpecialLink", "Style",
     "Text", "Index", "Teletyped", "BreakingReturn", "Reference", "Strong",
     "Emphasized", "Sub", "Sup", "Small", "Underline", "Overline", "Span",
     "Big"}

\* the classes derived from parser.Style that are in neither map: they
\* inherit isinlinenode = True from Style
styleDerivedUnlisted == {"Blockquote"}

\* class attribute lookup of isinlinenode: the class itself, then Style for
\* the classes derived from it, then the default of AdvancedNode (False)
isinlinenode(k) ==
    IF k \in blockNodesMap THEN FALSE
    ELSE IF k \in inlineNodesMap THEN TRUE
    ELSE IF k \in styleDerivedUnlisted THEN TRUE
    ELSE FALSE

\* AdvancedNode.isblocknode
isblocknode(k) == ~isinlinenode(k)

\* ------------------------------------------------------------------
\* Heap helpers
\* ------------------------------------------------------------------

\* the node identities in use
Ids(h) == DOMAIN h.klass

\* raise e: the exception propagates out of every enclosing call
Raise(h, e) == [h EXCEPT !.exc = e]

\* no exception is propagating
Ok(h) == h.exc = "none"

\* list.index(x) as a 1-based position; 0 stands for ValueError
IndexOf(s, x) ==
    IF \E i \in 1..Len(s) : s[i] = x
    THEN CHOOSE i \in 1..Len(s) : s[i] = x /\ \A j \in 1..(i - 1) : s[j] # x
    ELSE 0

\* the list s with its element at position i taken out
RemoveAt(s, i) == SubSeq(s, 1, i - 1) \o SubSeq(s, i + 1, Len(s))

\* the list s[:i-1] + ins + s[i-1:] (ins placed before the 1-based position i)
InsertAt(s, i, ins) == SubSeq(s, 1, i - 1) \o ins \o SubSeq(s, i, Len(s))

\* the elements of a sequence
Range(s) == { s[i] : i \in 1..Len(s) }

\* a new node object klass(caption): no children, no parent reference
NewNode(h, k, cap) ==
    LET n == Cardinality(Ids(h)) + 1 IN
    [h EXCEPT !.klass = @ @@ (n :> k),
              !.caption = @ @@ (n :> cap),
              !.children = @ @@ (n :> <<>>),
              !.parentref = @ @@ (n :> None),
              !.h_level = @ @@ (n :> 0),
              !.uh_level = @ @@ (n :> None)]

\* the identity NewNode gives to the node it creates
NewId(h) == Cardinality(Ids(h)) + 1

\* ------------------------------------------------------------------
\* AdvancedNode: mutation primitives
\* ------------------------------------------------------------------

\* AdvancedNode.getParent
getParent(h, n) == h.parentref[n]

\* replaceChild with the new children put at the end of the list instead
\* of the position of c
replaceChild_newAtEnd(h, self, c, newchildren) ==
    LET idx == IndexOf(h.children[self], c) IN
    IF idx = 0 THEN Raise(h, "ValueError")
    ELSE
      LET removed == RemoveAt(h.children[self], idx)
          h1 == [h EXCEPT !.children[self] = removed, !.parentref[c] = None]
      IN IF newchildren = <<>> THEN h1
         ELSE [h1 EXCEPT
                 !.children[self] = removed \o newchildren,
                 !.parentref = [n \in DOMAIN @ |->
                                  IF n \in Range(newchildren) THEN self ELSE @[n]]]

\* replaceChild that clears the parent reference of c before looking c up
replaceChild_clearFirst(h, self, c, newchildren) ==
    LET idx == IndexOf(h.children[self], c)
        h0 == [h EXCEPT !.parentref[c] = None]
    IN
    IF idx = 0 THEN Raise(h0, "ValueError")
    ELSE
      LET removed == RemoveAt(h0.children[self], idx)
          h1 == [h0 EXCEPT !.children[self] = removed]
      IN IF newchildren = <<>> THEN h1
         ELSE [h1 EXCEPT
                 !.children[self] = InsertAt(removed, idx, newchildren),
                 !.parentref = [n \in DOMAIN @ |->
                                  IF n \in Range(newchildren) THEN self ELSE @[n]]]

\* AdvancedNode.replaceChild(self, c, newchildren)
replaceChild(h, self, c, newchildren) ==
    LET idx == IndexOf(h.children[self], c) IN
    IF idx = 0 THEN Raise(h, "ValueError")
    ELSE
      LET removed == RemoveAt(h.children[self], idx)
          h1 == [h EXCEPT !.children[self] = removed, !.parentref[c] = None]
      IN IF newchildren = <<>> THEN h1
         ELSE [h1 EXCEPT
                 !.children[self] = InsertAt(removed, idx, newchildren),
                 !.parentref = [n \in DOMAIN @ |->
                                  IF n \in Range(newchildren) THEN self ELSE @[n]]]

\* AdvancedNode.removeChild(self, c)
removeChild(h, self, c) == replaceChild(h, self, c, <<>>)

\* AdvancedNode.appendChild(self, c)
appendChild(h, self, c) ==
    [h EXCEPT !.children[self] = Append(@, c), !.parentref[c] = self]

\* moveto that puts self after targetnode whatever prefix says
moveto_alwaysAfter(h, self, targetnode, prefix) ==
    IF getParent(h, self) = None THEN Raise(h, "AttributeError")
    ELSE
      LET h1 == removeChild(h, getParent(h, self), self) IN
      IF ~Ok(h1) THEN h1
      ELSE IF targetnode = None THEN Raise(h1, "AttributeError")
      ELSE
        LET tp == getParent(h1, targetnode) IN
        IF tp = None THEN Raise(h1, "AttributeError")
        ELSE
          LET i == IndexOf(h1.children[tp], targetnode) IN
          IF i = 0 THEN Raise(h1, "ValueError")
          ELSE
            LET idx == i + 1 IN
            [h1 EXCEPT !.children[tp] = InsertAt(@, idx, <<self>>),
                       !.parentref[self] = tp]

\* AdvancedNode.moveto(self, targetnode, prefix); targetnode may be None
moveto(h, self, targetnode, prefix) ==
    IF getParent(h, self) = None THEN Raise(h, "AttributeError")
    ELSE
      LET h1 == removeChild(h, getParent(h, self), self) IN
      IF ~Ok(h1) THEN h1
      ELSE IF targetnode = None THEN Raise(h1, "AttributeError")
      ELSE
        LET tp == getParent(h1, targetnode) IN
        IF tp = None THEN Raise(h1, "AttributeError")
        ELSE
          LET i == IndexOf(h1.children[tp], targetnode) IN
          IF i = 0 THEN Raise(h1, "ValueError")
          ELSE
            LET idx == IF prefix THEN i ELSE i + 1 IN
            [h1 EXCEPT !.children[tp] = InsertAt(@, idx, <<self>>),
                       !.parentref[self] = tp]

\* ------------------------------------------------------------------
\* AdvancedNode: navigation
\* ------------------------------------------------------------------

\* AdvancedNode.getParents: the ancestors, the root first
RECURSIVE getParents(_, _)
getParents(h, n) ==
    IF getParent(h, n) # None
    THEN Append(getParents(h, getParent(h, n)), getParent(h, n))
    ELSE <<>>

\* AdvancedNode.getParentNodesByClass
getParentNodesByClass(h, n, k) ==
    SelectSeq(getParents(h, n), LAMBDA p : h.klass[p] = k)

\* AdvancedNode.getAllSiblings
getAllSiblings(h, n) ==
    IF getParent(h, n) # None THEN h.children[getParent(h, n)] ELSE <<>>

\* AdvancedNode.getSiblings
getSiblings(h, n) == SelectSeq(getAllSiblings(h, n), LAMBDA c : c # n)

\* AdvancedNode.getPrevious
getPrevious(h, n) ==
    LET s == getAllSiblings(h, n)
        idx == IndexOf(s, n)
    IN IF idx = 0 THEN None
       ELSE IF idx - 1 < 1 THEN None
       ELSE s[idx - 1]

\* getNext with a lookup that answers -1 for a node it does not find, as
\* str.find does, instead of raising ValueError: the node after position -1
\* is the first sibling
getNext_findInsteadOfIndex(h, n) ==
    LET s == getAllSiblings(h, n)
        idx == IndexOf(s, n)
    IN IF idx = 0 THEN (IF Len(s) = 0 THEN None ELSE s[1])
       ELSE IF idx + 1 > Len(s) THEN None
       ELSE s[idx + 1]

\* AdvancedNode.getNext
getNext(h, n) ==
    LET s == getAllSiblings(h, n)
        idx == IndexOf(s, n)
    IN IF idx = 0 THEN None
       ELSE IF idx + 1 > Len(s) THEN None
       ELSE s[idx + 1]

\* AdvancedNode.getLastChild
getLastChild(h, n) ==
    IF h.children[n] # <<>> THEN h.children[n][Len(h.children[n])] ELSE None

\* the class of a reference that may be None (None.__class__ is NoneType)
ClassOf(h, n) == IF n = None THEN "NoneType" ELSE h.klass[n]

\* ------------------------------------------------------------------
\* The passes of buildAdvancedTree
\* ------------------------------------------------------------------

\* extendClasses(node): every child's _parentref is set to its container
RECURSIVE extendClasses(_, _), extendClassesLoop(_, _, _, _)
extendClassesLoop(h, node, snap, i) ==
    IF i > Len(snap) THEN h
    ELSE LET c == snap[i]
             h1 == extendClasses(h, c)
         IN extendClassesLoop([h1 EXCEPT !.parentref[c] = node], node, snap, i + 1)

extendClasses(h, node) == extendClassesLoop(h, node, h.children[node], 1)

\* the body of the loop of fixTagNodes for one child c, without the recursion
fixTagNode(h, c) ==
    IF h.klass[c] = "TagNode"
    THEN IF h.caption[c] \in DOMAIN tagNodeMap
         THEN [h EXCEPT !.klass[c] = tagNodeMap[h.caption[c]]]
         ELSE IF h.caption[c] \in headingTags
         THEN [h EXCEPT !.klass[c] = "Section",
                        !.uh_level[c] = DigitValue[h.caption[c][2]],
                        !.caption[c] = <<>>]
         ELSE [h EXCEPT !.log = Append(@, <<"fixTagNodes", c>>)]
    ELSE h

\* fixTagNodes(node)
RECURSIVE fixTagNodes(_, _), fixTagNodesLoop(_, _, _)
fixTagNodesLoop(h, node, i) ==
    IF i > Len(h.children[node]) THEN h
    ELSE LET c == h.children[node][i]
         IN fixTagNodesLoop(fixTagNodes(fixTagNode(h, c), c), node, i + 1)

fixTagNodes(h, node) == fixTagNodesLoop(h, node, 1)

\* mutant of fixStyleStrongEmphasized: "node.children = []" is forgotten, the
\* new Emphasized node is appended to the children it was given
fixStyleStrongEmphasized_keepChildren(h, node) ==
    LET em == NewId(h)
        h1 == NewNode([h EXCEPT !.klass[node] = "Strong", !.caption[node] = <<>>],
                      "Emphasized", <<"'", "'">>)
        h2 == [h1 EXCEPT !.children[em] = h1.children[node]]
    IN appendChild(h2, node, em)

\* fixStyle, branch caption == "'''''": Strong around a new Emphasized
fixStyleStrongEmphasized(h, node) ==
    LET em == NewId(h)
        h1 == NewNode([h EXCEPT !.klass[node] = "Strong", !.caption[node] = <<>>],
                      "Emphasized", <<"'", "'">>)
        h2 == [h1 EXCEPT !.children[em] = h1.children[node],
                         !.children[node] = <<>>]
    IN appendChild(h2, node, em)

\* the loop "for c in node.children: dt.appendChild(c)" of fixStyle
RECURSIVE appendAll(_, _, _, _)
appendAll(h, dt, cs, i) ==
    IF i > Len(cs) THEN h ELSE appendAll(appendChild(h, dt, cs[i]), dt, cs, i + 1)

\* fixStyle, branch caption == ";", no DefinitionList before the node
fixStyleNewDefinitionList(h, node) ==
    LET dt == NewId(h)
        h1 == NewNode([h EXCEPT !.klass[node] = "DefinitionList"],
                      "DefinitionTerm", <<>>)
        h2 == appendAll(h1, dt, h1.children[node], 1)
        h3 == [h2 EXCEPT !.children[node] = <<>>]
    IN appendChild(h3, node, dt)

\* fixStyle, branch caption == ";"
fixStyleSemicolon(h, node) ==
    IF ClassOf(h, getPrevious(h, node)) = "DefinitionList"
    THEN LET h1 == [h EXCEPT !.klass[node] = "DefinitionTerm"]
         IN moveto(h1, node, getLastChild(h1, getPrevious(h1, node)), FALSE)
    ELSE fixStyleNewDefinitionList(h, node)

\* fixStyle, branch caption.startswith(":")
fixStyleColon(h, node) ==
    IF ClassOf(h, getPrevious(h, node)) = "DefinitionList"
    THEN LET h1 == [h EXCEPT !.klass[node] = "DefinitionDescription"]
             h2 == moveto(h1, node, getLastChild(h1, getPrevious(h1, node)), FALSE)
         IN IF Ok(h2) THEN [h2 EXCEPT !.caption[node] = <<>>] ELSE h2
    ELSE [h EXCEPT !.klass[node] = "Indented"]

\* mutant of fixStyle: a token of the style table changes the class but the
\* caption is kept
fixStyle_keepCaption(h, node) ==
    IF h.klass[node] # "Style" THEN h
    ELSE IF h.caption[node] = <<"'", "'">>
    THEN [h EXCEPT !.klass[node] = "Emphasized", !.caption[node] = <<>>]
    ELSE IF h.caption[node] = <<"'", "'", "'", "'", "'">>
    THEN fixStyleStrongEmphasized(h, node)
    ELSE IF h.caption[node] = <<"'", "'", "'">>
    THEN [h EXCEPT !.klass[node] = "Strong", !.caption[node] = <<>>]
    ELSE IF h.caption[node] = <<";">>
    THEN fixStyleSemicolon(h, node)
    ELSE IF startswithColon(h.caption[node])
    THEN fixStyleColon(h, node)
    ELSE IF h.caption[node] \in DOMAIN styleNodeMap
    THEN [h EXCEPT !.klass[node] = styleNodeMap[h.caption[node]]]
    ELSE [h EXCEPT !.log = Append(@, <<"fixStyle", node>>)]

\* fixStyle(node)
fixStyle(h, node) ==
    IF h.klass[node] # "Style" THEN h
    ELSE IF h.caption[node] = <<"'", "'">>
    THEN [h EXCEPT !.klass[node] = "Emphasized", !.caption[node] = <<>>]
    ELSE IF h.caption[node] = <<"'", "'", "'", "'", "'">>
    THEN fixStyleStrongEmphasized(h, node)
    ELSE IF h.caption[node] = <<"'", "'", "'">>
    THEN [h EXCEPT !.klass[node] = "Strong", !.caption[node] = <<>>]
    ELSE IF h.caption[node] = <<";">>
    THEN fixStyleSemicolon(h, node)
    ELSE IF startswithColon(h.caption[node])
    THEN fixStyleColon(h, node)
    ELSE IF h.caption[node] \in DOMAIN styleNodeMap
    THEN [h EXCEPT !.klass[node] = styleNodeMap[h.caption[node]],
                   !.caption[node] = <<>>]
    ELSE [h EXCEPT !.log = Append(@, <<"fixStyle", node>>)]

\* fixStyles(node)
RECURSIVE fixStyles(_, _), fixStylesLoop(_, _, _)
fixStylesLoop(h, snap, i) ==
    IF i > Len(snap) \/ ~Ok(h) THEN h
    ELSE fixStylesLoop(fixStyles(h, snap[i]), snap, i + 1)

fixStyles(h, node) ==
    LET h1 == IF h.klass[node] = "Style" THEN fixStyle(h, node) ELSE h
    IN IF Ok(h1) THEN fixStylesLoop(h1, h1.children[node], 1) ELSE h1

\* the body of fixLists for one node, without the recursion
fixList(h, node) ==
    LET parent == getParent(h, node) IN
    IF parent = None THEN h
    ELSE LET grandparent == getParent(h, parent) IN
         IF grandparent = None THEN h
         ELSE IF /\ h.klass[node] = "ItemList"
                 /\ h.klass[parent] = "Paragraph"
                 /\ getSiblings(h, node) = <<>>
              THEN replaceChild(h, grandparent, parent, <<node>>)
              ELSE h

\* fixLists(node)
RECURSIVE fixLists(_, _), fixListsLoop(_, _, _)
fixListsLoop(h, snap, i) ==
    IF i > Len(snap) \/ ~Ok(h) THEN h
    ELSE fixListsLoop(fixLists(h, snap[i]), snap, i + 1)

fixLists(h, node) ==
    LET h1 == fixList(h, node)
    IN IF Ok(h1) THEN fixListsLoop(h1, h1.children[node], 1) ELSE h1

\* mutant of removeNode: the Node is removed together with its children
removeNode_dropChildren(h, node) ==
    IF h.klass[node] = "Node"
    THEN IF getParent(h, node) = None THEN Raise(h, "AttributeError")
         ELSE replaceChild(h, getParent(h, node), node, <<>>)
    ELSE h

\* the body of removeNodes for one node, without the recursion
removeNode(h, node) ==
    IF h.klass[node] = "Node"
    THEN IF getParent(h, node) = None THEN Raise(h, "AttributeError")
         ELSE replaceChild(h, getParent(h, node), node, h.children[node])
    ELSE h

\* removeNodes(node)
RECURSIVE removeNodes(_, _), removeNodesLoop(_, _, _)
removeNodesLoop(h, snap, i) ==
    IF i > Len(snap) \/ ~Ok(h) THEN h
    ELSE removeNodesLoop(removeNodes(h, snap[i]), snap, i + 1)

removeNodes(h, node) ==
    LET h1 == removeNode(h, node)
    IN IF Ok(h1) THEN removeNodesLoop(h1, h1.children[node], 1) ELSE h1

\* "x or y" on references: x when x is a node, else y
OrElse(x, y) == IF x # None THEN x ELSE y

\* mutant of atBlockBoundary: only what precedes the node is looked at
atBlockBoundary_prevOnly(h, prev, next) ==
    \/ prev = None
    \/ isblocknode(h.klass[prev])

\* the test shared by removeNewlines and removeBreakingReturns:
\* not next or next.isblocknode or not prev or prev.isblocknode
atBlockBoundary(h, prev, next) ==
    \/ next = None
    \/ isblocknode(h.klass[next])
    \/ prev = None
    \/ isblocknode(h.klass[prev])

\* the body of removeNewlines without the test for PreFormatted ancestors
removeNewline_ignorePreFormatted(h, node) ==
    IF h.klass[node] = "Text"
    THEN
      LET h1 ==
            IF strip(h.caption[node]) = <<>>
            THEN LET prev == OrElse(getPrevious(h, node), getParent(h, node)) IN
                 IF getNext(h, node) = None /\ getParent(h, node) = None
                 THEN Raise(h, "AttributeError")
                 ELSE LET next == OrElse(getNext(h, node),
                                         getNext(h, getParent(h, node)))
                      IN IF atBlockBoundary(h, prev, next)
                         THEN removeChild(h, getParent(h, node), node)
                         ELSE h
            ELSE h
      IN IF Ok(h1)
         THEN [h1 EXCEPT !.caption[node] = replaceNewline(h1.caption[node])]
         ELSE h1
    ELSE h

\* the body of removeNewlines for one node, without the recursion
removeNewline(h, node) ==
    IF h.klass[node] = "Text" /\ getParentNodesByClass(h, node, "PreFormatted") = <<>>
    THEN
      LET h1 ==
            IF strip(h.caption[node]) = <<>>
            THEN LET prev == OrElse(getPrevious(h, node), getParent(h, node)) IN
                 IF getNext(h, node) = None /\ getParent(h, node) = None
                 THEN Raise(h, "AttributeError")
                 ELSE LET next == OrElse(getNext(h, node),
                                         getNext(h, getParent(h, node)))
                      IN IF atBlockBoundary(h, prev, next)
                         THEN removeChild(h, getParent(h, node), node)
                         ELSE h
            ELSE h
      IN IF Ok(h1)
         THEN [h1 EXCEPT !.caption[node] = replaceNewline(h1.caption[node])]
         ELSE h1
    ELSE h

\* removeNewlines(node)
RECURSIVE removeNewlines(_, _), removeNewlinesLoop(_, _, _)
removeNewlinesLoop(h, snap, i) ==
    IF i > Len(snap) \/ ~Ok(h) THEN h
    ELSE removeNewlinesLoop(removeNewlines(h, snap[i]), snap, i + 1)

removeNewlines(h, node) ==
    LET h1 == removeNewline(h, node)
    IN IF Ok(h1) THEN removeNewlinesLoop(h1, h1.children[node], 1) ELSE h1

\* the body of the loop of removeBreakingReturns for one child c of node
removeBreakingReturn(h, node, c) ==
    IF h.klass[c] = "BreakingReturn"
    THEN LET prev == OrElse(getPrevious(h, c), getParent(h, c)) IN
         IF getNext(h, c) = None /\ getParent(h, c) = None
         THEN Raise(h, "AttributeError")
         ELSE LET next == OrElse(getNext(h, c), getNext(h, getParent(h, c)))
              IN IF atBlockBoundary(h, prev, next)
                 THEN removeChild(h, node, c)
                 ELSE h
    ELSE h

\* removeBreakingReturns(node)
RECURSIVE removeBreakingReturns(_, _), removeBreakingReturnsLoop(_, _, _, _)
removeBreakingReturnsLoop(h, node, snap, i) ==
    IF i > Len(snap) \/ ~Ok(h) THEN h
    ELSE LET h1 == removeBreakingReturn(h, node, snap[i])
         IN IF Ok(h1)
            THEN removeBreakingReturnsLoop(removeBreakingReturns(h1, snap[i]),
                                           node, snap, i + 1)
            ELSE h1

removeBreakingReturns(h, node) ==
    removeBreakingReturnsLoop(h, node, h.children[node], 1)

\* ------------------------------------------------------------------
\* State
\* ------------------------------------------------------------------

VARIABLES
    klass,      \* node -> node.__class__
    caption,    \* node -> node.caption
    children,   \* node -> node.children
    parentref,  \* node -> node._parentref (None when unset or cleared)
    h_level,    \* node -> node.h_level
    uh_level,   \* node -> node._h_level (None when the attribute is not set)
    log,        \* the warnings sent to log.warn
    exc,        \* the exception that left the last call, or "none"
    pc,         \* the pass buildAdvancedTree runs next, "done", or "prim"
    run,        \* how many times buildAdvancedTree has been called
    input,      \* the heap handed to the first call of buildAdvancedTree
    once,       \* the heap left by the first call, once it has returned
    nops,       \* how many primitive operations the caller has applied
    last        \* the primitive operation applied last, with its arguments

vars == <<klass, caption, children, parentref, h_level, uh_level, log, exc,
          pc, run, input, once, nops, last>>

\* the node handed to buildAdvancedTree
Root == 1

\* the heap as one record
Heap ==
    [klass |-> klass, caption |-> caption, children |-> children,
     parentref |-> parentref, h_level |-> h_level, uh_level |-> uh_level,
     log |-> log, exc |-> exc]

\* the heap after a step
SetHeap(h) ==
    /\ klass' = h.klass
    /\ caption' = h.caption
    /\ children' = h.children
    /\ parentref' = h.parentref
    /\ h_level' = h.h_level
    /\ uh_level' = h.uh_level
    /\ log' = h.log
    /\ exc' = h.exc

\* ------------------------------------------------------------------
\* Input trees: what the parser hands over
\* ------------------------------------------------------------------

\* a label is a class and a caption
Lbl(k, cap) == [klass |-> k, caption |-> cap]

\* the nodes from j up to the root along the parent vector par
RECURSIVE AncOrSelf(_, _)
AncOrSelf(par, j) == IF j = 1 THEN {1} ELSE {j} \cup AncOrSelf(par, par[j])

\* parent vectors of the ordered trees with n nodes, numbered in pre-order
Shapes(n) ==
    { par \in [2..n -> 1..n] :
        /\ \A i \in 2..n : par[i] < i
        /\ \A i \in 3..n : par[i] \in AncOrSelf(par, i - 1) }

\* the children of p, in order, in the tree with parent vector par
RECURSIVE ChildSeq(_, _, _, _)
ChildSeq(par, n, p, i) ==
    IF i > n THEN <<>>
    ELSE (IF par[i] = p THEN <<i>> ELSE <<>>) \o ChildSeq(par, n, p, i + 1)

\* classes the parser gives no children
LeafClasses == {"Text"}

\* the heap of a parser tree: shape par on n nodes, the root an Article
\* and node i labelled lab[i]; no node has a parent reference yet
TreeHeap(n, par, lab) ==
    [klass |-> [i \in 1..n |-> IF i = 1 THEN "Article" ELSE lab[i].klass],
     caption |-> [i \in 1..n |-> IF i = 1 THEN <<>> ELSE lab[i].caption],
     children |-> [i \in 1..n |-> ChildSeq(par, n, i, 2)],
     parentref |-> [i \in 1..n |-> None],
     h_level |-> [i \in 1..n |-> 0],
     uh_level |-> [i \in 1..n |-> None],
     log |-> <<>>,
     exc |-> "none"]

\* in the tree with parent vector par, no node of a leaf class has a child
LeavesRespected(n, par, lab) ==
    \A i \in 2..n : lab[i].klass \in LeafClasses => \A j \in 2..n : par[j] # i

\* captions used by the input trees
capA == <<"a">>
capWs == <<" ", " ", "\n", " ">>
capEm == <<"'", "'">>
capStrongEm == <<"'", "'", "'", "'", "'">>
capSemicolon == <<";">>
capColon == <<":">>
capBr == <<"b", "r">>
capUnknownTag == <<"b", "l", "i", "n", "k">>
capUnknownStyle == <<"z", "z">>

\* the state with heap h and nothing called yet
InitHeap(h) ==
    /\ klass = h.klass
    /\ caption = h.caption
    /\ children = h.children
    /\ parentref = h.parentref
    /\ h_level = h.h_level
    /\ uh_level = h.uh_level
    /\ log = h.log
    /\ exc = h.exc
    /\ run = 1
    /\ input = h
    /\ once = h
    /\ nops = 0
    /\ last = [op |-> "none"]

\* the state before buildAdvancedTree is called on a parser tree with at
\* most MaxNodes nodes labelled from palette
InitWith(palette) ==
    \E n \in 2..MaxNodes : \E par \in Shapes(n) : \E lab \in [2..n -> palette] :
        /\ LeavesRespected(n, par, lab)
        /\ InitHeap(TreeHeap(n, par, lab))
        /\ pc = "extendClasses"

\* style markup: definition lists and bold-italic
StylePalette ==
    { Lbl("Style", capSemicolon), Lbl("Style", capColon),
      Lbl("Style", capStrongEm), Lbl("Text", capA) }

InitStyles == InitWith(StylePalette)

\* text and whitespace between inline and block nodes
WhitespacePalette ==
    { Lbl("Text", capA), Lbl("Text", capWs), Lbl("Paragraph", <<>>),
      Lbl("PreFormatted", <<>>), Lbl("Style", capEm) }

InitWhitespace == InitWith(WhitespacePalette)

\* lists inside paragraphs, next to bold-italic markup and an unknown tag
ListPalette ==
    { Lbl("Paragraph", <<>>), Lbl("ItemList", <<>>), Lbl("Style", capStrongEm),
      Lbl("Text", capA), Lbl("TagNode", capUnknownTag) }

InitLists == InitWith(ListPalette)

\* grouping nodes around generic nodes with known and unknown literals
GenericPalette ==
    { Lbl("Node", <<>>), Lbl("TagNode", capUnknownTag), Lbl("TagNode", capBr),
      Lbl("Style", capUnknownStyle), Lbl("Style", capColon), Lbl("Text", capA) }

InitGeneric == InitWith(GenericPalette)

\* forced line breaks between text, inline and block nodes and inside
\* bold-italic markup
BreakPalette ==
    { Lbl("TagNode", capBr), Lbl("Text", capA), Lbl("Style", capStrongEm),
      Lbl("Style", capEm), Lbl("Paragraph", <<>>) }

InitBreaks == InitWith(BreakPalette)

\* every kind of node a pass relocates: grouping nodes, lists in paragraphs,
\* definition-list markup and bold-italic markup
RelocationPalette ==
    { Lbl("Node", <<>>), Lbl("Paragraph", <<>>), Lbl("ItemList", <<>>),
      Lbl("Style", capSemicolon), Lbl("Style", capColon),
      Lbl("Style", capStrongEm) }

\* the state before buildAdvancedTree is called on a parser tree with at
\* most MaxFairNodes nodes labelled from RelocationPalette
InitRelocation ==
    \E n \in 2..MaxFairNodes : \E par \in Shapes(n) :
      \E lab \in [2..n -> RelocationPalette] :
        /\ LeavesRespected(n, par, lab)
        /\ InitHeap(TreeHeap(n, par, lab))
        /\ pc = "extendClasses"

\* the generic nodes with one literal each: every key of the two tables,
\* the six heading tags and one unknown literal per class
LiteralPalette ==
    { Lbl("TagNode", cap) : cap \in DOMAIN tagNodeMap \cup headingTags \cup {capUnknownTag} }
    \cup { Lbl("Style", cap) : cap \in DOMAIN styleNodeMap \cup {capUnknownStyle} }

\* minimal trees around one generic node g: Article[g], Article[g[Text]]
\* and Article[Paragraph[Text, g]]
InitTables ==
    \E g \in LiteralPalette :
      \E h \in { TreeHeap(2, (2 :> 1), (2 :> g)),
                 TreeHeap(3, (2 :> 1) @@ (3 :> 2), (2 :> g) @@ (3 :> Lbl("Text", capA))),
                 TreeHeap(4, (2 :> 1) @@ (3 :> 2) @@ (4 :> 2),
                          (2 :> Lbl("Paragraph", <<>>)) @@ (3 :> Lbl("Text", capA))
                            @@ (4 :> g)) } :
         InitHeap(h) /\ pc = "extendClasses"

\* ------------------------------------------------------------------
\* buildAdvancedTree, one action per pass
\* ------------------------------------------------------------------

\* a pass ran and left heap h, and buildAdvancedTree runs the same pass again
Pass_samePassAgain(h, nxt) ==
    /\ SetHeap(h)
    /\ pc' = pc
    /\ UNCHANGED <<run, input, once, nops, last>>

\* a pass ran and left the heap h (named left, once computed): go on to the
\* pass nxt unless it raised
Pass(h, nxt) ==
    \E left \in {h} :
        /\ SetHeap(left)
        /\ pc' = IF Ok(left) THEN nxt ELSE pc
        /\ UNCHANGED <<run, input, once, nops, last>>

ExtendClasses ==
    /\ pc = "extendClasses" /\ exc = "none"
    /\ Pass(extendClasses(Heap, Root), "fixTagNodes")

FixTagNodes ==
    /\ pc = "fixTagNodes" /\ exc = "none"
    /\ Pass(fixTagNodes(Heap, Root), "removeNodes")

RemoveNodes ==
    /\ pc = "removeNodes" /\ exc = "none"
    /\ Pass(removeNodes(Heap, Root), "removeNewlines")

RemoveNewlines ==
    /\ pc = "removeNewlines" /\ exc = "none"
    /\ Pass(removeNewlines(Heap, Root), "fixStyles")

FixStyles ==
    /\ pc = "fixStyles" /\ exc = "none"
    /\ Pass(fixStyles(Heap, Root), "fixLists")

FixLists ==
    /\ pc = "fixLists" /\ exc = "none"
    /\ Pass(fixLists(Heap, Root), "removeBreakingReturns")

RemoveBreakingReturns ==
    /\ pc = "removeBreakingReturns" /\ exc = "none"
    /\ Pass(removeBreakingReturns(Heap, Root), "done")

\* the caller calls buildAdvancedTree a second time on the same tree
CallAgain ==
    /\ pc = "done" /\ exc = "none" /\ run = 1
    /\ once' = Heap
    /\ run' = 2
    /\ pc' = "extendClasses"
    /\ UNCHANGED <<klass, caption, children, parentref, h_level, uh_level,
                   log, exc, input, nops, last>>

Next ==
    \/ ExtendClasses
    \/ FixTagNodes
    \/ RemoveNodes
    \/ RemoveNewlines
    \/ FixStyles
    \/ FixLists
    \/ RemoveBreakingReturns
    \/ CallAgain

SpecStyles == InitStyles /\ [][Next]_vars

SpecWhitespace == InitWhitespace /\ [][Next]_vars

SpecLists == InitLists /\ [][Next]_vars

SpecGeneric == InitGeneric /\ [][Next]_vars

SpecTables == InitTables /\ [][Next]_vars

SpecBreaks == InitBreaks /\ [][Next]_vars

\* buildAdvancedTree runs its passes one after the other without waiting
\* for anything: a pass that can run does run
SpecRelocation == InitRelocation /\ [][Next]_vars /\ WF_vars(Next)

\* ------------------------------------------------------------------
\* The primitives applied by a caller to the nodes of a tree
\* ------------------------------------------------------------------

\* the primitives start from a tree of at most MaxPrimNodes nodes in which
\* every child's parent reference is set
InitPrim ==
    \E n \in 2..MaxPrimNodes : \E par \in Shapes(n) :
        /\ InitHeap(extendClasses(TreeHeap(n, par, [i \in 2..n |-> Lbl("Paragraph", <<>>)]),
                                  Root))
        /\ pc = "prim"

\* the lists of at most two distinct nodes, the arguments newchildren
NewChildrenLists ==
    {<<>>} \cup { <<a>> : a \in DOMAIN klass }
           \cup { s \in (DOMAIN klass) \X (DOMAIN klass) : s[1] # s[2] }

\* the caller applied operation op and it left heap h; an exception raised
\* by the operation is caught by the caller and recorded in last
Applied(h, op) ==
    /\ SetHeap([h EXCEPT !.exc = "none"])
    /\ last' = [op EXCEPT !.exc = h.exc]
    /\ nops' = nops + 1
    /\ UNCHANGED <<pc, run, input, once>>

AppendChild ==
    /\ pc = "prim" /\ nops < MaxOps
    /\ \E self \in DOMAIN klass, c \in DOMAIN klass :
         Applied(appendChild(Heap, self, c),
                 [op |-> "appendChild", self |-> self, c |-> c,
                  newchildren |-> <<>>, prefix |-> FALSE, exc |-> "none"])

RemoveChild ==
    /\ pc = "prim" /\ nops < MaxOps
    /\ \E self \in DOMAIN klass, c \in DOMAIN klass :
         Applied(removeChild(Heap, self, c),
                 [op |-> "removeChild", self |-> self, c |-> c,
                  newchildren |-> <<>>, prefix |-> FALSE, exc |-> "none"])

ReplaceChild ==
    /\ pc = "prim" /\ nops < MaxOps
    /\ \E self \in DOMAIN klass, c \in DOMAIN klass, nc \in NewChildrenLists :
         Applied(replaceChild(Heap, self, c, nc),
                 [op |-> "replaceChild", self |-> self, c |-> c,
                  newchildren |-> nc, prefix |-> FALSE, exc |-> "none"])

Moveto ==
    /\ pc = "prim" /\ nops < MaxOps
    /\ \E self \in DOMAIN klass, target \in DOMAIN klass, prefix \in BOOLEAN :
         Applied(moveto(Heap, self, target, prefix),
                 [op |-> "moveto", self |-> self, c |-> target,
                  newchildren |-> <<>>, prefix |-> prefix, exc |-> "none"])

NextPrim ==
    \/ AppendChild
    \/ RemoveChild
    \/ ReplaceChild
    \/ Moveto

SpecPrim == InitPrim /\ [][NextPrim]_vars

\* ------------------------------------------------------------------
\* Sibling lookups by a caller once buildAdvancedTree has returned
\* ------------------------------------------------------------------

\* the caller looked a sibling up: getPrevious and getNext assign nothing,
\* catch the ValueError of list.index themselves and return result
LookedUp(op, n, result) ==
    /\ last' = [op |-> op, self |-> n, result |-> result, exc |-> "none"]
    /\ nops' = nops + 1
    /\ UNCHANGED <<klass, caption, children, parentref, h_level, uh_level,
                   log, exc, pc, run, input, once>>

GetPrevious ==
    /\ pc = "done" /\ nops < MaxOps
    /\ \E n \in DOMAIN klass : LookedUp("getPrevious", n, getPrevious(Heap, n))

GetNext ==
    /\ pc = "done" /\ nops < MaxOps
    /\ \E n \in DOMAIN klass : LookedUp("getNext", n, getNext(Heap, n))

NextLookup ==
    \/ Next
    \/ GetPrevious
    \/ GetNext

\* line breaks, which removeBreakingReturns detaches, and bold-italic
\* markup, whose children fixStyle re-homes
LookupPalette ==
    { Lbl("TagNode", capBr), Lbl("Text", capA), Lbl("Style", capStrongEm) }

InitLookup == InitWith(LookupPalette)

SpecLookup == InitLookup /\ [][NextLookup]_vars

\* ------------------------------------------------------------------
\* Helpers of the properties
\* ------------------------------------------------------------------

\* how often node n occurs in the list s
RECURSIVE Occurrences(_, _)
Occurrences(s, n) ==
    IF s = <<>> THEN 0
    ELSE (IF Head(s) = n THEN 1 ELSE 0) + Occurrences(Tail(s), n)

\* how often node n occurs in all children lists of the fields ch together
RECURSIVE OccurrencesIn(_, _, _)
OccurrencesIn(ch, ps, n) ==
    IF ps = {} THEN 0
    ELSE LET p == CHOOSE q \in ps : TRUE
         IN Occurrences(ch[p], n) + OccurrencesIn(ch, ps \ {p}, n)

\* node n is held by exactly the children list its parent reference names,
\* once, or by none when it has no parent reference
BackRefConsistent(ch, pr, n) ==
    IF pr[n] = None
    THEN OccurrencesIn(ch, DOMAIN ch, n) = 0
    ELSE /\ Occurrences(ch[pr[n]], n) = 1
         /\ OccurrencesIn(ch, DOMAIN ch, n) = 1

\* ------------------------------------------------------------------
\* Properties
\* ------------------------------------------------------------------

\* C1: after every primitive operation (appendChild, removeChild,
\* replaceChild, moveto, with any nodes of the tree as arguments) every
\* node's parent reference names the one children list that holds it, and
\* no node is held as a child twice.
C1_BackRefsConsistent ==
    \A n \in DOMAIN klass : BackRefConsistent(children, parentref, n)

\* the structure of the tree below n: class, caption and the children's
\* structures in order
RECURSIVE Shape(_, _), ShapeSeq(_, _, _)
ShapeSeq(h, cs, i) ==
    IF i > Len(cs) THEN <<>> ELSE <<Shape(h, cs[i])>> \o ShapeSeq(h, cs, i + 1)

Shape(h, n) == <<h.klass[n], h.caption[n], ShapeSeq(h, h.children[n], 1)>>

\* C2: a second call of buildAdvancedTree on the same tree leaves a tree
\* with the structure (classes, captions, order of children) the first call
\* left.
C2_PipelineIdempotent ==
    (run = 2 /\ pc = "done") => Shape(Heap, Root) = Shape(once, Root)

\* the nodes below n (n excluded), through the children lists ch
RECURSIVE Below(_, _), BelowSeq(_, _, _)
BelowSeq(ch, cs, i) ==
    IF i > Len(cs) THEN {}
    ELSE {cs[i]} \cup Below(ch, cs[i]) \cup BelowSeq(ch, cs, i + 1)

Below(ch, n) == BelowSeq(ch, ch[n], 1)

\* the nodes reachable from the root, the root excluded
Reachable == Below(children, Root)

\* at least one pass of buildAdvancedTree has completed, none has raised
AfterSomePass == exc = "none" /\ pc # "prim" /\ ~(run = 1 /\ pc = "extendClasses")

\* C3: after every pass of buildAdvancedTree every node reachable from
\* the root, the root excluded, has a parent reference equal to the one node
\* whose children list holds it.
C3_ReachableBackRefs ==
    AfterSomePass =>
        \A n \in Reachable :
            /\ parentref[n] # None
            /\ BackRefConsistent(children, parentref, n)

\* node n is a generic Style node whose caption is ";" or starts with ":"
IsListStyle(k, cap, n) ==
    k[n] = "Style" /\ (cap[n] = capSemicolon \/ startswithColon(cap[n]))

\* p's children at positions i, i+1, i+2 are generic Style nodes with the
\* captions ";", ":", ":", the node before them (if any) is neither a
\* DefinitionList nor about to join or start one, and the node after them
\* (if any) does not continue the list
SemicolonColonColonAt(p, i) ==
    /\ i + 2 <= Len(children[p])
    /\ klass[children[p][i]] = "Style" /\ caption[children[p][i]] = capSemicolon
    /\ klass[children[p][i + 1]] = "Style" /\ caption[children[p][i + 1]] = capColon
    /\ klass[children[p][i + 2]] = "Style" /\ caption[children[p][i + 2]] = capColon
    /\ i > 1 => /\ klass[children[p][i - 1]] # "DefinitionList"
                /\ ~IsListStyle(klass, caption, children[p][i - 1])
    /\ i + 3 <= Len(children[p]) => ~IsListStyle(klass, caption, children[p][i + 3])

\* C4: consecutive sibling Style nodes with the captions ";", ":", ":"
\* (no DefinitionList before them) are turned by fixStyles into one
\* DefinitionList whose children are one DefinitionTerm and then the two
\* ":" nodes as DefinitionDescription, in their order; the two ":" nodes are
\* no longer children of their former parent.
C4_DefinitionListGrouping ==
    [][ (pc = "fixStyles" /\ exc = "none") =>
          \A p \in DOMAIN children : \A i \in 1..Len(children[p]) :
             SemicolonColonColonAt(p, i) =>
               LET s1 == children[p][i]
                   s2 == children[p][i + 1]
                   s3 == children[p][i + 2]
               IN /\ klass'[s1] = "DefinitionList"
                  /\ Len(children'[s1]) = 3
                  /\ klass'[children'[s1][1]] = "DefinitionTerm"
                  /\ children'[s1][2] = s2 /\ klass'[s2] = "DefinitionDescription"
                  /\ children'[s1][3] = s3 /\ klass'[s3] = "DefinitionDescription"
                  /\ \A q \in DOMAIN children' :
                        /\ s1 \in Range(children'[q]) => q \in {p} \cup (DOMAIN children' \ DOMAIN children)
                        /\ s2 \in Range(children'[q]) => q = s1
                        /\ s3 \in Range(children'[q]) => q = s1
      ]_vars

\* C5: fixStyles rewrites a generic Style node with the caption "'''''"
\* and children [X, Y] into a Strong node with an empty caption whose
\* children list is exactly one new Emphasized node, and that node's children
\* are [X, Y] in their order.
C5_StrongEmphasizedSplit ==
    [][ (pc = "fixStyles" /\ exc = "none") =>
          \A n \in Reachable :
             (klass[n] = "Style" /\ caption[n] = capStrongEm) =>
                /\ klass'[n] = "Strong"
                /\ caption'[n] = <<>>
                /\ Len(children'[n]) = 1
                /\ children'[n][1] \notin DOMAIN klass
                /\ klass'[children'[n][1]] = "Emphasized"
                /\ children'[children'[n][1]] = children[n]
      ]_vars

\* fixStyles has split a "'''''" node that had two children
C5_Witness ==
    /\ run = 1 /\ pc = "fixLists"
    /\ \E n \in Reachable \cap DOMAIN input.klass :
         /\ input.klass[n] = "Style" /\ input.caption[n] = capStrongEm
         /\ Len(input.children[n]) = 2
         /\ klass[n] = "Strong"
         /\ Len(children[n]) = 1
         /\ klass[children[n][1]] = "Emphasized"
         /\ children[children[n][1]] = input.children[n]

\* n is a Text node of whitespace only, reachable and outside PreFormatted
WhitespaceText(n) ==
    /\ n \in Reachable
    /\ klass[n] = "Text"
    /\ strip(caption[n]) = <<>>
    /\ \A a \in Range(getParents(Heap, n)) : klass[a] # "PreFormatted"

\* the position of n in the children list of its parent
PosOf(n) == IndexOf(children[parentref[n]], n)

\* n has a following sibling
HasNextSibling(n) == PosOf(n) < Len(children[parentref[n]])

\* the sibling after n
NextSibling(n) == children[parentref[n]][PosOf(n) + 1]

\* the sibling before n, for n that is not the first child
PrevSibling(n) == children[parentref[n]][PosOf(n) - 1]

\* C6 as claimed: removeNewlines removes a whitespace-only Text node
\* (outside PreFormatted) whose next sibling is a block node; it keeps the
\* node when the next sibling is not a block node, and the caption is then a
\* single space.
C6_AsClaimed ==
    [][ (pc = "removeNewlines" /\ exc = "none") =>
          \A n \in Reachable :
             (WhitespaceText(n) /\ HasNextSibling(n)) =>
                IF isblocknode(klass[NextSibling(n)])
                THEN n \notin Below(children', Root)
                ELSE n \in Below(children', Root) /\ caption'[n] = <<" ">>
      ]_vars

\* the node before n stays where it is and is inline, or n is the first
\* child of an inline parent
InlineBefore(n) ==
    IF PosOf(n) = 1
    THEN isinlinenode(klass[parentref[n]])
    ELSE /\ isinlinenode(klass[PrevSibling(n)])
         /\ ~(klass[PrevSibling(n)] = "Text" /\ strip(caption[PrevSibling(n)]) = <<>>)

\* C6 amended: removeNewlines removes a whitespace-only Text node (outside
\* PreFormatted) whose next sibling is a block node; it keeps the node when
\* the next sibling is not a block node and what precedes it (a previous
\* sibling that is not itself whitespace-only text, else the parent) is not
\* a block node either, and the caption is then the old caption with every
\* newline replaced by one space, all other characters kept.
C6_WhitespaceAtBoundary ==
    [][ (pc = "removeNewlines" /\ exc = "none") =>
          \A n \in Reachable :
             (WhitespaceText(n) /\ HasNextSibling(n)) =>
                IF isblocknode(klass[NextSibling(n)])
                THEN n \notin Below(children', Root)
                ELSE InlineBefore(n) =>
                       /\ n \in Below(children', Root)
                       /\ Len(caption'[n]) = Len(caption[n])
                       /\ \A i \in 1..Len(caption[n]) :
                             caption'[n][i] = IF caption[n][i] = "\n" THEN " "
                                              ELSE caption[n][i]
      ]_vars

\* removeNewlines has kept one "  \n " text, now four spaces, before an
\* inline sibling and removed another that stood before a block sibling
C6_Witness ==
    /\ run = 1 /\ pc = "fixStyles"
    /\ \E p \in DOMAIN input.klass : \E i \in 1..(Len(input.children[p]) - 1) :
         /\ input.klass[input.children[p][i]] = "Text"
         /\ input.caption[input.children[p][i]] = capWs
         /\ isinlinenode(input.klass[input.children[p][i + 1]])
         /\ input.children[p][i] \in Reachable
         /\ caption[input.children[p][i]] = <<" ", " ", " ", " ">>
    /\ \E p \in DOMAIN input.klass : \E i \in 1..(Len(input.children[p]) - 1) :
         /\ input.klass[input.children[p][i]] = "Text"
         /\ input.caption[input.children[p][i]] = capWs
         /\ isblocknode(input.klass[input.children[p][i + 1]])
         /\ input.children[p][i] \notin Reachable
         /\ \A a \in {p} \cup Range(getParents(Heap, p)) : klass[a] # "PreFormatted"

\* L is an ItemList, the only child of the Paragraph P, which is the i-th
\* child of the reachable node (or root) G
SoleListAt(G, i, P, L) ==
    /\ G \in Reachable \cup {Root}
    /\ i \in 1..Len(children[G])
    /\ children[G][i] = P
    /\ klass[P] = "Paragraph"
    /\ children[P] = <<L>>
    /\ klass[L] = "ItemList"

\* C7: in fixLists, an ItemList that is the only child of a Paragraph
\* which has a parent takes the Paragraph's place in the grandparent's
\* children (the other children keep their order), its parent reference
\* becomes the grandparent and the Paragraph is no longer reachable; after
\* the pass no reachable Paragraph has an ItemList as its only child.
C7_ListUnwrapped ==
    [][ (pc = "fixLists" /\ exc = "none") =>
          /\ \A G \in DOMAIN klass, P \in DOMAIN klass, L \in DOMAIN klass :
               \A i \in 1..Len(children[G]) :
                 SoleListAt(G, i, P, L) =>
                    /\ Len(children'[G]) = Len(children[G])
                    /\ children'[G][i] = L
                    /\ \A j \in 1..Len(children[G]) :
                          j # i =>
                            \/ children'[G][j] = children[G][j]
                            \/ /\ klass[children[G][j]] = "Paragraph"
                               /\ children[children[G][j]] = <<children'[G][j]>>
                    /\ parentref'[L] = G
                    /\ P \notin Below(children', Root)
          /\ \A P \in Below(children', Root) :
               ~(/\ klass'[P] = "Paragraph"
                 /\ Len(children'[P]) = 1
                 /\ klass'[children'[P][1]] = "ItemList")
      ]_vars

\* the nodes of the input tree that are generic TagNode or Style nodes with
\* a literal no table and no rule of fixTagNodes / fixStyle knows
UnknownGenerics ==
    { n \in DOMAIN input.klass \ {Root} :
        \/ /\ input.klass[n] = "TagNode"
           /\ input.caption[n] \notin DOMAIN tagNodeMap
           /\ input.caption[n] \notin headingTags
        \/ /\ input.klass[n] = "Style"
           /\ input.caption[n] \notin DOMAIN styleNodeMap
           /\ input.caption[n] \notin {capEm, <<"'", "'", "'">>, capStrongEm, capSemicolon}
           /\ ~startswithColon(input.caption[n]) }

\* how many warnings the log holds for node n
RECURSIVE WarningsFor(_, _)
WarningsFor(lg, n) ==
    IF lg = <<>> THEN 0
    ELSE (IF Head(lg)[2] = n THEN 1 ELSE 0) + WarningsFor(Tail(lg), n)

\* the parent holding n and n's position there, in the children lists ch
PlaceOf(ch, n) ==
    { <<p, i>> \in (DOMAIN ch) \X (1..Cardinality(DOMAIN ch)) :
         i <= Len(ch[p]) /\ ch[p][i] = n }

\* C8: a generic TagNode or Style node with an unknown literal is, after
\* buildAdvancedTree, still of that class, at the same position, with the
\* same caption and children; one warning per call is logged for it and no
\* exception leaves buildAdvancedTree.
C8_UnknownLiteralTolerated ==
    (pc # "prim" /\ UnknownGenerics # {}) =>
        /\ exc = "none"
        /\ pc = "done" =>
             \A n \in UnknownGenerics :
                /\ klass[n] = input.klass[n]
                /\ caption[n] = input.caption[n]
                /\ children[n] = input.children[n]
                /\ PlaceOf(children, n) = PlaceOf(input.children, n)
                /\ WarningsFor(log, n) = run

\* the children of n in heap h once every grouping node (class Node) below
\* it is replaced by its own children, in order
RECURSIVE Spliced(_, _), SplicedSeq(_, _, _)
SplicedSeq(h, cs, i) ==
    IF i > Len(cs) THEN <<>>
    ELSE (IF h.klass[cs[i]] = "Node" THEN Spliced(h, cs[i]) ELSE <<cs[i]>>)
         \o SplicedSeq(h, cs, i + 1)

Spliced(h, n) == SplicedSeq(h, h.children[n], 1)

\* caption cap is a literal that fixTagNodes (for TagNode) or fixStyle (for
\* Style) recognizes
KnownLiteral(k, cap) ==
    IF k = "TagNode"
    THEN cap \in DOMAIN tagNodeMap \/ cap \in headingTags
    ELSE \/ cap \in DOMAIN styleNodeMap
         \/ cap \in {capEm, <<"'", "'", "'">>, capStrongEm, capSemicolon}
         \/ startswithColon(cap)

ExpectedTagClass(cap) ==
    CASE cap = <<"c","o","d","e">> -> "Code"
      [] cap = <<"b","r">> -> "BreakingReturn"
      [] cap = <<"h","r">> -> "HorizontalRule"
      [] cap = <<"i","n","d","e","x">> -> "Index"
      [] cap = <<"t","t">> -> "Teletyped"
      [] cap = <<"r","e","f">> -> "Reference"
      [] cap = <<"r","e","f","e","r","e","n","c","e","s">> -> "ReferenceList"
      [] cap = <<"g","a","l","l","e","r","y">> -> "Gallery"
      [] cap = <<"c","e","n","t","e","r">> -> "Center"
      [] cap = <<"d","i","v">> -> "Div"
      [] cap = <<"s","p","a","n">> -> "Span"
      [] cap = <<"s","t","r","i","k","e">> -> "Strike"
      [] cap = <<"i","m","a","g","e","m","a","p">> -> "ImageMap"
      [] OTHER -> "TagNode"

\* the class each literal of the style-token table stands for
ExpectedStyleClass(cap) ==
    CASE cap = <<"o","v","e","r","l","i","n","e">> -> "Overline"
      [] cap = <<"u">> -> "Underline"
      [] cap = <<"s","u","b">> -> "Sub"
      [] cap = <<"s","u","p">> -> "Sup"
      [] cap = <<"s","m","a","l","l">> -> "Small"
      [] cap = <<"b","i","g">> -> "Big"
      [] cap = <<"c","i","t","e">> -> "Cite"
      [] cap = <<"s">> -> "Strike"
      [] OTHER -> "Style"

\* the thirteen tag names of the tag-name table
TagTableLiterals ==
    { <<"c","o","d","e">>, <<"b","r">>, <<"h","r">>, <<"i","n","d","e","x">>,
      <<"t","t">>, <<"r","e","f">>, <<"r","e","f","e","r","e","n","c","e","s">>,
      <<"g","a","l","l","e","r","y">>, <<"c","e","n","t","e","r">>, <<"d","i","v">>,
      <<"s","p","a","n">>, <<"s","t","r","i","k","e">>,
      <<"i","m","a","g","e","m","a","p">> }

\* the eight style tokens of the style-token table
StyleTableLiterals ==
    { <<"o","v","e","r","l","i","n","e">>, <<"u">>, <<"s","u","b">>, <<"s","u","p">>,
      <<"s","m","a","l","l">>, <<"b","i","g">>, <<"c","i","t","e">>, <<"s">> }

\* C10: a tree holding one generic TagNode whose caption is a name of the
\* tag-name table, or one generic Style node whose caption is a token of the
\* style-token table, is normalized by buildAdvancedTree so that this node
\* has exactly the class the table gives; for a style token its caption is
\* then empty.
C10_TableLiteralsMapped ==
    (pc = "done" /\ exc = "none") =>
        \A n \in DOMAIN input.klass \ {Root} :
           /\ (input.klass[n] = "TagNode" /\ input.caption[n] \in TagTableLiterals) =>
                 klass[n] = ExpectedTagClass(input.caption[n])
           /\ (input.klass[n] = "Style" /\ input.caption[n] \in StyleTableLiterals) =>
                 /\ klass[n] = ExpectedStyleClass(input.caption[n])
                 /\ caption[n] = <<>>

\* buildAdvancedTree has finished on a tree whose generic node was a Style
\* node with the caption "s", now a Strike node without caption
C10_Witness ==
    /\ pc = "done" /\ run = 1
    /\ \E n \in DOMAIN input.klass :
         /\ input.klass[n] = "Style" /\ input.caption[n] = <<"s">>
         /\ klass[n] = "Strike" /\ caption[n] = <<>>

\* the heading level a heading tag name stands for, 0 for any other caption
ExpectedHeadingLevel(cap) ==
    CASE cap = <<"h", "1">> -> 1
      [] cap = <<"h", "2">> -> 2
      [] cap = <<"h", "3">> -> 3
      [] cap = <<"h", "4">> -> 4
      [] cap = <<"h", "5">> -> 5
      [] cap = <<"h", "6">> -> 6
      [] OTHER -> 0

\* the generic TagNode nodes of the input tree whose caption is h1 .. h6
HeadingTagNodes ==
    { n \in DOMAIN input.klass \ {Root} :
        input.klass[n] = "TagNode" /\ ExpectedHeadingLevel(input.caption[n]) # 0 }

\* C11: when fixTagNodes has run, a generic TagNode whose caption was hN,
\* N in 1..6, is a Section node whose attribute h_level is N and whose
\* caption is empty; its children and its position are unchanged.
C11_HeadingBecomesSection ==
    (pc = "removeNodes" /\ run = 1 /\ exc = "none") =>
        \A n \in HeadingTagNodes :
           /\ klass[n] = "Section"
           /\ h_level[n] = ExpectedHeadingLevel(input.caption[n])
           /\ caption[n] = <<>>
           /\ children[n] = input.children[n]
           /\ PlaceOf(children, n) = PlaceOf(input.children, n)

\* the list old with its element at position idx replaced by the list nc
SplicedAt(old, idx, nc) ==
    [ i \in 1..(Len(old) - 1 + Len(nc)) |->
        IF i < idx THEN old[i]
        ELSE IF i < idx + Len(nc) THEN nc[i - idx + 1]
        ELSE old[i - Len(nc) + 1] ]

\* the first position of c in the list s (c occurs in s)
FirstPos(s, c) == CHOOSE i \in 1..Len(s) : s[i] = c /\ \A j \in 1..(i - 1) : s[j] # c

\* C12: replaceChild(parent, child, newChildren) with child among parent's
\* children does not fail, leaves parent's children equal to the old list
\* with child's place taken by newChildren in order, clears child's parent
\* reference (child itself being among newChildren, it is then set again as
\* for every element of newChildren) and sets the parent reference of every
\* element of newChildren to parent; removeChild(parent, child) does what
\* replaceChild does with an empty newChildren.
C12_ReplaceChildSplices ==
    [][ (/\ nops' = nops + 1
         /\ last'.op \in {"replaceChild", "removeChild"}
         /\ last'.c \in Range(children[last'.self]))
        => LET parent == last'.self
               child == last'.c
               nc == last'.newchildren
           IN /\ last'.exc = "none"
              /\ last'.op = "removeChild" => nc = <<>>
              /\ children'[parent] =
                   SplicedAt(children[parent], FirstPos(children[parent], child), nc)
              /\ child \notin Range(nc) => parentref'[child] = None
              /\ \A n \in Range(nc) : parentref'[n] = parent
              /\ \A n \in DOMAIN klass \ {parent} : children'[n] = children[n]
              /\ \A n \in DOMAIN klass \ ({child} \cup Range(nc)) :
                    parentref'[n] = parentref[n]
      ]_vars

\* replaceChild has put two nodes in the place of the first child of a
\* parent that had a further child after it
C12_Witness ==
    /\ last.op = "replaceChild" /\ last.exc = "none"
    /\ Len(last.newchildren) = 2
    /\ last.c \notin Range(last.newchildren)
    /\ parentref[last.c] = None
    /\ Len(children[last.self]) >= 3
    /\ children[last.self][1] = last.newchildren[1]
    /\ children[last.self][2] = last.newchildren[2]

\* the list s without the occurrences of node n
Without(s, n) == SelectSeq(s, LAMBDA x : x # n)

\* C13: moveto(node, target, prefix) with node and target both having a
\* parent and target not node does not fail; it takes node out of its
\* parent's children once and puts it once into the children of target's
\* parent, immediately after target (prefix false) or immediately before it
\* (prefix true); node's parent reference is then target's parent, and the
\* other children of every list keep their order. Node and target may be
\* siblings, in either order.
C13_MovetoPlacesNextToTarget ==
    [][ (/\ nops' = nops + 1
         /\ last'.op = "moveto"
         /\ last'.self # last'.c
         /\ parentref[last'.self] # None
         /\ parentref[last'.c] # None)
        => LET node == last'.self
               target == last'.c
               op == parentref[node]
               tp == parentref[target]
           IN /\ last'.exc = "none"
              /\ parentref'[node] = tp
              /\ \E i \in 1..Len(children'[tp]) :
                    /\ children'[tp][i] = target
                    /\ IF last'.prefix
                       THEN i > 1 /\ children'[tp][i - 1] = node
                       ELSE i < Len(children'[tp]) /\ children'[tp][i + 1] = node
              /\ \A p \in DOMAIN klass :
                    /\ Without(children'[p], node) = Without(children[p], node)
                    /\ Occurrences(children'[p], node) =
                         Occurrences(children[p], node)
                           - (IF p = op THEN 1 ELSE 0) + (IF p = tp THEN 1 ELSE 0)
              /\ \A n \in DOMAIN klass \ {node} : parentref'[n] = parentref[n]
      ]_vars

\* moveto has moved a node that stood before its sibling target, with another
\* sibling between them, to the place immediately after target
C13_Witness ==
    /\ nops = 1 /\ last.op = "moveto" /\ last.exc = "none" /\ ~last.prefix
    /\ input.parentref[last.self] = input.parentref[last.c]
    /\ input.parentref[last.self] # None
    /\ LET s == input.children[input.parentref[last.self]]
       IN Len(s) = 3 /\ s[1] = last.self /\ s[3] = last.c
    /\ children[parentref[last.self]] =
         << input.children[input.parentref[last.self]][2], last.c, last.self >>

\* C14: moveto(node, target) with a target that has no parent fails and
\* leaves the tree as it was: every children list and every parent
\* reference, node's included, is unchanged.
C14_MovetoFailureLeavesTree ==
    [][ (/\ nops' = nops + 1
         /\ last'.op = "moveto"
         /\ parentref[last'.c] = None)
        => /\ last'.exc # "none"
           /\ children' = children
           /\ parentref' = parentref
      ]_vars

\* C15: replaceChild(parent, child, newChildren) with a child that is not
\* among parent's children raises, and leaves parent's children, child's
\* parent reference and the parent references of the elements of
\* newChildren (every children list and parent reference, in fact) as they
\* were.
C15_ReplaceChildFailureLeavesTree ==
    [][ (/\ nops' = nops + 1
         /\ last'.op = "replaceChild"
         /\ last'.c \notin Range(children[last'.self]))
        => /\ last'.exc = "ValueError"
           /\ children' = children
           /\ parentref' = parentref
      ]_vars

\* replaceChild has failed for a child held by another parent, with new
\* children given
C15_Witness ==
    /\ last.op = "replaceChild" /\ last.exc = "ValueError"
    /\ last.newchildren # <<>>
    /\ last.c \notin Range(children[last.self])
    /\ parentref[last.c] # None
    /\ parentref[last.c] # last.self
    /\ \E n \in Range(last.newchildren) : parentref[n] # last.self

\* the sibling after n in the present tree, or None
NextOrNone(n) ==
    IF parentref[n] # None /\ PosOf(n) > 0 /\ HasNextSibling(n)
    THEN NextSibling(n) ELSE None

\* the sibling before n in the present tree, or None
PrevOrNone(n) ==
    IF parentref[n] # None /\ PosOf(n) > 1 THEN PrevSibling(n) ELSE None

\* the block-boundary predicate on the present tree, for a node n that has
\* a parent: the next sibling (or, if absent, the parent's next sibling) is
\* absent or block, or the previous sibling (or, if absent, the parent) is
\* absent or block
AtBoundaryNow(n) ==
    LET next == IF NextOrNone(n) # None THEN NextOrNone(n)
                ELSE NextOrNone(parentref[n])
        prev == IF PrevOrNone(n) # None THEN PrevOrNone(n) ELSE parentref[n]
    IN \/ next = None
       \/ isblocknode(klass[next])
       \/ prev = None
       \/ isblocknode(klass[prev])

\* C16: when removeNewlines has run, no reachable whitespace-only Text node
\* without a PreFormatted ancestor is at a block boundary of the resulting
\* tree.
C16_NoWhitespaceLeftAtBoundary ==
    (pc = "fixStyles" /\ exc = "none") =>
        \A n \in Reachable : WhitespaceText(n) => ~AtBoundaryNow(n)

\* the node whose children list ch holds n, for n below the root
Holder(ch, n) ==
    CHOOSE p \in Below(ch, Root) \cup {Root} : n \in Range(ch[p])

\* the sibling after n in the list that holds it, or None
ActualNext(ch, n) ==
    IF n = Root THEN None
    ELSE LET s == ch[Holder(ch, n)]
             i == IndexOf(s, n)
         IN IF i < Len(s) THEN s[i + 1] ELSE None

\* the sibling before n in the list that holds it, or None
ActualPrev(ch, n) ==
    IF n = Root THEN None
    ELSE LET s == ch[Holder(ch, n)]
             i == IndexOf(s, n)
         IN IF i > 1 THEN s[i - 1] ELSE None

\* the block-boundary predicate for a node n below the root, on the tree
\* given by the children lists ch and the classes kl
ActualBoundary(ch, kl, n) ==
    LET next == IF ActualNext(ch, n) # None THEN ActualNext(ch, n)
                ELSE ActualNext(ch, Holder(ch, n))
        prev == IF ActualPrev(ch, n) # None THEN ActualPrev(ch, n)
                ELSE Holder(ch, n)
    IN \/ next = None
       \/ isblocknode(kl[next])
       \/ isblocknode(kl[prev])

\* n stands between two siblings that are Text nodes
BetweenTexts(ch, kl, n) ==
    /\ ActualPrev(ch, n) # None /\ kl[ActualPrev(ch, n)] = "Text"
    /\ ActualNext(ch, n) # None /\ kl[ActualNext(ch, n)] = "Text"

\* C17: when removeBreakingReturns has run on the tree the earlier passes
\* left, no reachable BreakingReturn node is at a block boundary, judged by
\* the siblings and the parent that hold it in the resulting tree; and a
\* BreakingReturn node that stood between two inline siblings (two Text
\* nodes), the children of the Emphasized node made for a ''''' node
\* included, is still a child of the node that held it.
C17_BreaksAtBoundaryRemoved ==
    [][ (pc = "removeBreakingReturns" /\ exc = "none" /\ exc' = "none") =>
          /\ \A n \in Below(children', Root) :
                klass'[n] = "BreakingReturn" => ~ActualBoundary(children', klass', n)
          /\ \A n \in Reachable :
                (klass[n] = "BreakingReturn" /\ BetweenTexts(children, klass, n))
                   => n \in Range(children'[Holder(children, n)])
      ]_vars

\* n is a reachable Text node below a PreFormatted node of the present tree
TextInPreFormatted(n) ==
    /\ n \in Reachable
    /\ klass[n] = "Text"
    /\ \E a \in Reachable : klass[a] = "PreFormatted" /\ n \in Below(children, a)

\* C18: removeNewlines leaves every Text node that has a PreFormatted
\* ancestor where it is, in the children list that held it, with its parent
\* reference and its caption unchanged, whatever its siblings are.
C18_PreFormattedTextUntouched ==
    [][ (pc = "removeNewlines" /\ exc = "none") =>
          \A n \in Reachable :
             TextInPreFormatted(n) =>
                /\ n \in Below(children', Root)
                /\ n \in Range(children'[Holder(children, n)])
                /\ parentref'[n] = parentref[n]
                /\ caption'[n] = caption[n]
      ]_vars

\* removeNewlines has run and a whitespace-only Text node with a newline,
\* the last child of a PreFormatted node, is still there with its caption
C18_Witness ==
    /\ pc = "fixStyles" /\ run = 1 /\ exc = "none"
    /\ \E n \in Reachable :
         /\ TextInPreFormatted(n)
         /\ caption[n] = capWs
         /\ klass[Holder(children, n)] = "PreFormatted"
         /\ ActualNext(children, n) = None

\* the nodes the children lists ch lead to from the nodes of S, S included
RECURSIVE Closure(_, _)
Closure(ch, S) ==
    LET T == S \cup UNION { Range(ch[n]) : n \in S }
    IN IF T = S THEN S ELSE Closure(ch, T)

\* the nodes below n through the children lists ch, however they are linked
Descendants(ch, n) == Closure(ch, Range(ch[n]))

\* no node reachable from the root, the root included, is below itself
Acyclic(ch) ==
    \A n \in {Root} \cup Descendants(ch, Root) : n \notin Descendants(ch, n)

\* C19: every call of buildAdvancedTree on a finite tree whose root is not
\* a grouping node comes to an end (it returns, or an exception leaves it),
\* and at the end of every pass the nodes reachable from the root form a
\* finite tree without a cycle: no node is below itself.
C19_TerminatesAcyclic ==
    /\ [](Acyclic(children) /\ Cardinality(DOMAIN children) <= 2 * MaxFairNodes)
    /\ (pc = "extendClasses") ~> (pc = "done" \/ exc # "none")

\* buildAdvancedTree has returned after it relocated a ':' node, a child of
\* the root, into the DefinitionList made of the ';' node before it
C19_Witness ==
    /\ pc = "done" /\ run = 1 /\ exc = "none"
    /\ \E n \in Descendants(children, Root) :
         /\ klass[n] = "DefinitionDescription"
         /\ n \in Range(input.children[Root])
         /\ n \notin Range(children[Root])
         /\ klass[parentref[n]] = "DefinitionList"

\* among the children of p, the node at position i continues the list that
\* the ";" node at position j starts: the nodes from j to i are all ";" or
\* ":" Style nodes and j is the first ";" of that run
ContinuesListAt(p, j, i) ==
    /\ j < i /\ i <= Len(children[p])
    /\ \A k \in j..i : IsListStyle(klass, caption, children[p][k])
    /\ caption[children[p][j]] = capSemicolon
    /\ \A k \in 1..(j - 1) :
          (\A m \in k..j : IsListStyle(klass, caption, children[p][m]))
             => caption[children[p][k]] # capSemicolon

\* C20: when fixStyles has run, and in every later tree of the call, every
\* reachable DefinitionTerm and DefinitionDescription node is a child of a
\* DefinitionList; every DefinitionList that fixStyles made has a
\* DefinitionTerm as its first child; and a ";" or ":" node that continues
\* a list is a child of the DefinitionList made of the ";" node that
\* started it, the last child if it is the last node continuing that list.
C20_DefinitionListStructure ==
    [][ /\ (pc' \in {"fixLists", "removeBreakingReturns", "done"} /\ exc' = "none") =>
             \A n \in Below(children', Root) :
                klass'[n] \in {"DefinitionTerm", "DefinitionDescription"}
                   => klass'[Holder(children', n)] = "DefinitionList"
        /\ (pc = "fixStyles" /\ exc = "none" /\ exc' = "none") =>
             /\ \A n \in Below(children', Root) \cap DOMAIN klass :
                   (klass'[n] = "DefinitionList" /\ klass[n] # "DefinitionList")
                      => /\ children'[n] # <<>>
                         /\ klass'[children'[n][1]] = "DefinitionTerm"
             /\ \A p \in Reachable \cup {Root} :
                  \A i \in 1..Len(children[p]) : \A j \in 1..Len(children[p]) :
                     ContinuesListAt(p, j, i) =>
                        LET n == children[p][i]
                            dl == children[p][j]
                        IN /\ klass'[dl] = "DefinitionList"
                           /\ n \in Range(children'[dl])
                           /\ (i = Len(children[p])
                                \/ ~IsListStyle(klass, caption, children[p][i + 1]))
                                => children'[dl][Len(children'[dl])] = n
      ]_vars

\* the caller's step is a sibling lookup
IsLookup == nops' = nops + 1 /\ last'.op \in {"getPrevious", "getNext"}

\* node n has no parent, or is not among the children of the parent its
\* reference names
NotAmongSiblings(pr, ch, n) == pr[n] = None \/ n \notin Range(ch[pr[n]])

====
